---- MODULE Spec2Model ----
(***************************************************************************)
(* forkflow-services: the order service (order-service/app/main.py) and    *)
(* the catalog lookup it calls (catalog-service/app/main.py).              *)
(*                                                                         *)
(* Requests are handled concurrently.  create_order is a coroutine on the  *)
(* event loop; it is suspended only while a catalog lookup is outstanding  *)
(* and while the httpx client is closed.  The def handlers (get_orders,    *)
(* get_order, update_order_status) run on worker threads.                  *)
(***************************************************************************)
EXTENDS Integers, Sequences, FiniteSets, TLC

\* ------------------------------------------------------------------ bounds
MaxConcurrent == 2        \* requests handled at the same time
MaxItems == 2       \* lines of one request
MaxQuantity == 2    \* quantity of one line
MaxPrice == 3       \* price a request submits for a line
MaxOrders == 2      \* uuid4() values drawn in one run
MaxClock == 1       \* readings of the clock after the first
MaxRequests == 3    \* requests of one run of the lifecycle and concurrent clients

\* ------------------------------------------------------------ value sets
Tenants == {"t1", "t2"}
ItemIds == {"i1", "i2"}
Reqs == 1..MaxConcurrent
OrderIds == 1..MaxOrders
None == "None"

\* class OrderStatus(str, Enum)
OrderStatus == {"pending", "confirmed", "preparing", "ready", "completed", "cancelled"}

\* "price": 12.99 of the sample menu, in cents
CatalogPrice == 1299

\* class OrderItem(BaseModel): item_id, quantity, price
OrderItem == [item_id : ItemIds, quantity : 1..MaxQuantity, price : {MaxPrice}]

\* List[OrderItem] of a request, the empty list included
ItemLists == UNION {[1..n -> OrderItem] : n \in 0..MaxItems}

\* Optional[int]: the empty set for None, else the set of the one number
NoTable == {}

\* class CreateOrderRequest(BaseModel): items, customer_name, table_number, notes
CreateOrderRequest ==
  [items : ItemLists, customer_name : {"ann"}, table_number : {{4}}, notes : {None}]

NoRequest == [items |-> <<>>, customer_name |-> None, table_number |-> NoTable, notes |-> None]

\* ------------------------------------------------------------ the clients
\* What the clients send in one run: one client that sends every shape of
\* order, one client that walks orders through their statuses, or MaxConcurrent
\* clients whose requests are handled at the same time.
Loads == {"validation", "lifecycle", "concurrent"}

Slots(l) == IF l = "concurrent" THEN Reqs ELSE {1}

Budget(l) ==
  CASE l = "validation" -> MaxOrders
    [] l = "lifecycle" -> MaxRequests
    [] l = "concurrent" -> MaxRequests

OneLine == {r \in CreateOrderRequest : Len(r.items) = 1 /\ r.items[1].quantity = 1}

RequestsOf(l) == IF l = "validation" THEN CreateOrderRequest ELSE OneLine

\* ------------------------------------------------------------- the catalog
MenuItem(id, tenant_id, available) ==
  [id |-> id, price |-> CatalogPrice, available |-> available, tenant_id |-> tenant_id]

\* menus the catalog service can hold: one tenant with every item available
\* (the shape of the sample data), and two tenants whose menus differ
Catalogs ==
  { [t \in {"t1"} |-> <<MenuItem("i1", "t1", TRUE), MenuItem("i2", "t1", TRUE)>>],
    [t \in {"t1", "t2"} |->
        IF t = "t1" THEN <<MenuItem("i1", "t1", TRUE), MenuItem("i2", "t1", FALSE)>>
                    ELSE <<MenuItem("i2", "t2", TRUE)>>] }

VARIABLES
  menu_items,   \* catalog-service: tenant -> list of menu items
  orders,       \* order-service: tenant -> (order id -> Order), in insertion order
  clock,        \* what datetime.now() reads
  uuid_count,   \* number of uuid4() values drawn so far
  req,          \* the requests being handled, one slot per concurrent request
  load,         \* what the clients send in this run
  started,      \* number of requests received so far
  validated     \* history: order id -> the catalog answers its create_order received

vars == <<menu_items, orders, clock, uuid_count, req, load, started, validated>>

\* ---------------------------------------------------------- dict helpers
\* a dict is a sequence of values with distinct .id, in insertion order
DictKeys(d) == {d[i].id : i \in 1..Len(d)}

DictGet(d, k) == d[CHOOSE i \in 1..Len(d) : d[i].id = k]

\* d[k] = v
DictSet(d, k, v) ==
  IF k \in DictKeys(d)
    THEN [i \in 1..Len(d) |-> IF d[i].id = k THEN v ELSE d[i]]
    ELSE Append(d, v)

\* ------------------------------------------------------- catalog-service
HTTPException(status_code, detail) == [status_code |-> status_code, detail |-> detail]

\* get_menu_item that looks the item up in every tenant's menu
get_menu_itemAnyTenant(item_id, tenant_id) ==
  LET found == {m \in UNION {{menu_items[t][i] : i \in 1..Len(menu_items[t])} :
                              t \in DOMAIN menu_items} : m.id = item_id}
  IN IF found = {}
       THEN HTTPException(404, <<"Item not found", item_id>>)
       ELSE [status_code |-> 200, body |-> CHOOSE m \in found : TRUE]

\* GET /menu/{item_id} with header X-Tenant-ID
get_menu_item(item_id, tenant_id) ==
  IF tenant_id \notin DOMAIN menu_items
    THEN HTTPException(404, <<"No menu for tenant", tenant_id>>)
    ELSE LET menu == menu_items[tenant_id]
             hits == {i \in 1..Len(menu) : menu[i].id = item_id}
         IN IF hits = {}
              THEN HTTPException(404, <<"Item not found", item_id>>)
              ELSE [status_code |-> 200,
                    body |-> menu[CHOOSE i \in hits : \A j \in hits : i <= j]]

\* what `await client.get(...)` can produce besides the catalog's response:
\* a response with another error status, or an httpx exception
TimeoutException == [exception |-> "httpx.TimeoutException"]
ConnectError == [exception |-> "httpx.ConnectError"]
ServerError == [status_code |-> 500, detail |-> <<"Internal Server Error">>]

IsException(x) == "exception" \in DOMAIN x

ClientGet(item_id, tenant_id) ==
  {get_menu_item(item_id, tenant_id), ServerError, TimeoutException, ConnectError}

\* --------------------------------------------------------- order-service
NoResponse == [status_code |-> 0]

Idle == [op |-> "none", pc |-> "idle", tenant_id |-> None, request |-> NoRequest,
         order_id |-> 0, status |-> None, old_status |-> None, answers |-> <<>>,
         writes |-> 0, response |-> NoResponse]

NoException == [status_code |-> 0, detail |-> <<>>]

\* response.raise_for_status() on a status that is no success
HTTPStatusError == [exception |-> "httpx.HTTPStatusError"]

\* validate_menu_items without the check of "available"
ValidateResponseAnyItem(item, resp) ==
  IF resp = TimeoutException
    THEN HTTPException(503, <<"Catalog service unavailable (timeout)">>)
  ELSE IF IsException(resp)
    THEN HTTPException(503, <<"Catalog service unavailable", resp.exception>>)
  ELSE IF resp.status_code = 404
    THEN HTTPException(400, <<"Item", item.item_id, "not found in menu">>)
  ELSE IF resp.status_code \notin 200..299
    THEN HTTPStatusError
  ELSE NoException

\* validate_menu_items that takes a timeout for a missing item
ValidateResponseTimeoutAsMissing(item, resp) ==
  IF IsException(resp) \/ resp.status_code = 404
    THEN HTTPException(400, <<"Item", item.item_id, "not found in menu">>)
  ELSE IF resp.status_code \notin 200..299
    THEN HTTPStatusError
  ELSE IF ~resp.body.available
    THEN HTTPException(400, <<"Item", item.item_id, "is not available">>)
  ELSE NoException

\* one pass of the loop body of validate_menu_items on the outcome of the
\* lookup of `item`: NoException to go on with the loop, or what is raised
ValidateResponse(item, resp) ==
  IF resp = TimeoutException
    THEN HTTPException(503, <<"Catalog service unavailable (timeout)">>)
  ELSE IF IsException(resp)
    THEN HTTPException(503, <<"Catalog service unavailable", resp.exception>>)
  ELSE IF resp.status_code = 404
    THEN HTTPException(400, <<"Item", item.item_id, "not found in menu">>)
  ELSE IF resp.status_code \notin 200..299
    THEN HTTPStatusError
  ELSE IF ~resp.body.available
    THEN HTTPException(400, <<"Item", item.item_id, "is not available">>)
  ELSE NoException

\* the response the framework sends for what a handler raised
ErrorResponse(raised) ==
  IF IsException(raised)
    THEN [status_code |-> 500, detail |-> <<"Internal Server Error">>]
    ELSE raised

RECURSIVE SumTotalOfPrices(_)
\* the total without the quantities
SumTotalOfPrices(items) ==
  IF items = <<>> THEN 0 ELSE items[1].price + SumTotalOfPrices(Tail(items))

RECURSIVE SumTotal(_)
\* sum(item.price * item.quantity for item in request.items)
SumTotal(items) ==
  IF items = <<>> THEN 0
  ELSE items[1].price * items[1].quantity + SumTotal(Tail(items))

\* Order(...) as create_order builds it
NewOrder(order_id, tenant_id, request, now) ==
  [id |-> order_id,
   tenant_id |-> tenant_id,
   customer_name |-> request.customer_name,
   table_number |-> request.table_number,
   items |-> request.items,
   total |-> SumTotal(request.items),
   status |-> "pending",
   notes |-> request.notes,
   created_at |-> now,
   updated_at |-> now]

\* an id generator that repeats itself: the id drawn last, again
uuid4Repeating == IF uuid_count = 0 THEN uuid_count + 1 ELSE uuid_count

\* str(uuid.uuid4()): a value never drawn before
uuid4 == uuid_count + 1

\* "Store order" that makes the tenant's dict anew without looking for one
StoreOrderNewDict(tenant_id, order) ==
  [t \in DOMAIN orders \cup {tenant_id} |->
     IF t = tenant_id THEN <<order>> ELSE orders[t]]

\* orders after create_order's "Store order"
StoreOrder(tenant_id, order) ==
  LET with_tenant == IF tenant_id \notin DOMAIN orders
                       THEN [t \in DOMAIN orders \cup {tenant_id} |->
                               IF t = tenant_id THEN <<>> ELSE orders[t]]
                       ELSE orders
  IN [with_tenant EXCEPT ![tenant_id] = DictSet(@, order.id, order)]

\* tenant_id not in orders or order_id not in orders[tenant_id]
OrderMissing(order_id, tenant_id) ==
  tenant_id \notin DOMAIN orders \/ order_id \notin DictKeys(orders[tenant_id])

\* get_order that looks the id up under every tenant
get_orderAnyTenant(order_id, tenant_id) ==
  LET found == {o \in UNION {{orders[t][i] : i \in 1..Len(orders[t])} : t \in DOMAIN orders} :
                  o.id = order_id}
  IN IF found = {}
       THEN HTTPException(404, <<"Order", order_id, "not found">>)
       ELSE [status_code |-> 200, body |-> CHOOSE o \in found : TRUE]

\* GET /orders/{order_id}
get_order(order_id, tenant_id) ==
  IF OrderMissing(order_id, tenant_id)
    THEN HTTPException(404, <<"Order", order_id, "not found">>)
    ELSE [status_code |-> 200, body |-> DictGet(orders[tenant_id], order_id)]

\* get_orders that lists the dict from either end, by turns
get_ordersUnstable(tenant_id) ==
  IF tenant_id \notin DOMAIN orders
    THEN [status_code |-> 200, body |-> <<>>]
    ELSE LET d == orders[tenant_id]
         IN [status_code |-> 200,
             body |-> IF started % 2 = 0 THEN d
                      ELSE [i \in 1..Len(d) |-> d[Len(d) + 1 - i]]]

\* GET /orders
get_orders(tenant_id) ==
  IF tenant_id \notin DOMAIN orders
    THEN [status_code |-> 200, body |-> <<>>]
    ELSE [status_code |-> 200, body |-> orders[tenant_id]]

\* slot r can take a new request
Free(r) ==
  /\ r \in Slots(load)
  /\ req[r].pc \in {"idle", "done"}
  /\ started < Budget(load)

\* history: the number of steps of the request in slot s that changed the store
Wrote(s) == IF orders' = orders THEN s.writes ELSE s.writes + 1

\* the create_order requests in flight: each will draw an id if it validates
InFlight == {q \in Reqs : req[q].pc \in {"lookup", "validated"}}

\* create_order that does not wait for validate_menu_items
CreateOrderBeginUnvalidated(r, tenant_id, request) ==
  /\ Free(r)
  /\ uuid_count + Cardinality(InFlight) < MaxOrders
  /\ request \in RequestsOf(load)
  /\ started' = started + 1
  /\ req' = [req EXCEPT ![r] =
       [Idle EXCEPT !.op = "create_order", !.pc = "validated",
                    !.tenant_id = tenant_id, !.request = request]]
  /\ UNCHANGED <<menu_items, orders, clock, uuid_count, load, validated>>

\* POST /orders: the handler up to its first suspension.  An empty list makes
\* no lookup: validate_menu_items returns True at once.  The clients send no
\* more create_order requests than there are ids to draw.
CreateOrderBegin(r, tenant_id, request) ==
  /\ Free(r)
  /\ uuid_count + Cardinality(InFlight) < MaxOrders
  /\ request \in RequestsOf(load)
  /\ started' = started + 1
  /\ req' = [req EXCEPT ![r] =
       [Idle EXCEPT !.op = "create_order",
                    !.pc = IF request.items = <<>> THEN "validated" ELSE "lookup",
                    !.tenant_id = tenant_id,
                    !.request = request]]
  /\ UNCHANGED <<menu_items, orders, clock, uuid_count, load, validated>>

\* validate_menu_items that looks every line up and raises for the last
\* answer that was not found-and-available
CatalogRespondContinuing(r, resp) ==
  LET s == req[r]
      item == s.request.items[Len(s.answers) + 1]
      answers == Append(s.answers, [item_id |-> item.item_id, resp |-> resp])
      raised == ValidateResponse(item, resp)
  IN /\ s.pc = "lookup"
     /\ resp \in ClientGet(item.item_id, s.tenant_id)
     /\ req' = [req EXCEPT ![r] =
          IF Len(answers) < Len(s.request.items)
            THEN [s EXCEPT !.answers = answers]
          ELSE IF raised = NoException
            THEN [s EXCEPT !.answers = answers, !.pc = "validated"]
            ELSE [s EXCEPT !.answers = answers, !.pc = "done",
                           !.response = ErrorResponse(raised)]]
     /\ UNCHANGED <<menu_items, orders, clock, uuid_count, load, started, validated>>

\* the outstanding lookup of r completes and validate_menu_items runs on to the
\* next lookup, to its return, or to the exception it raises
CatalogRespond(r, resp) ==
  LET s == req[r]
      item == s.request.items[Len(s.answers) + 1]
      answers == Append(s.answers, [item_id |-> item.item_id, resp |-> resp])
      raised == ValidateResponse(item, resp)
  IN /\ s.pc = "lookup"
     /\ resp \in ClientGet(item.item_id, s.tenant_id)
     /\ req' = [req EXCEPT ![r] =
          IF raised = NoException
            THEN [s EXCEPT !.answers = answers,
                           !.pc = IF Len(answers) = Len(s.request.items)
                                    THEN "validated" ELSE "lookup"]
            ELSE [s EXCEPT !.answers = answers, !.pc = "done",
                           !.response = ErrorResponse(raised)]]
     /\ UNCHANGED <<menu_items, orders, clock, uuid_count, load, started, validated>>

\* create_order after validate_menu_items returned: total, id, timestamps, store
CreateOrderCommit(r) ==
  LET s == req[r]
      order == NewOrder(uuid4, s.tenant_id, s.request, clock)
  IN /\ s.pc = "validated"
     /\ uuid_count < MaxOrders
     /\ uuid_count' = uuid_count + 1
     /\ orders' = StoreOrder(s.tenant_id, order)
     /\ validated' = [o \in DOMAIN validated \cup {order.id} |->
                        IF o = order.id THEN s.answers ELSE validated[o]]
     /\ req' = [req EXCEPT ![r] =
          [s EXCEPT !.pc = "done", !.order_id = order.id, !.writes = Wrote(s),
                    !.response = [status_code |-> 201, body |-> order]]]
     /\ UNCHANGED <<menu_items, clock, load, started>>

\* update_order_status that first validates the order's first line with the
\* catalog, as create_order does
UpdateOrderStatusValidating(r, order_id, status, tenant_id) ==
  LET s == [Idle EXCEPT !.op = "update_order_status", !.tenant_id = tenant_id,
                        !.order_id = order_id, !.status = status]
  IN /\ Free(r)
     /\ started' = started + 1
     /\ IF OrderMissing(order_id, tenant_id)
          THEN /\ orders' = orders
               /\ req' = [req EXCEPT ![r] =
                    [s EXCEPT !.pc = "done",
                              !.response = HTTPException(404, <<"Order", order_id, "not found">>)]]
          ELSE LET order == DictGet(orders[tenant_id], order_id)
                   item == order.items[1]
               IN \E resp \in ClientGet(item.item_id, tenant_id) :
                    LET answers == <<[item_id |-> item.item_id, resp |-> resp]>>
                        raised == ValidateResponse(item, resp)
                    IN IF raised # NoException
                         THEN /\ orders' = orders
                              /\ req' = [req EXCEPT ![r] =
                                   [s EXCEPT !.pc = "done", !.answers = answers,
                                             !.response = ErrorResponse(raised)]]
                         ELSE /\ orders' = [orders EXCEPT ![tenant_id] =
                                   DictSet(@, order_id, [order EXCEPT !.status = status])]
                              /\ req' = [req EXCEPT ![r] =
                                   [s EXCEPT !.pc = "stamp", !.answers = answers,
                                             !.writes = Wrote(s),
                                             !.old_status = order.status]]
     /\ UNCHANGED <<menu_items, clock, uuid_count, load, validated>>

\* update_order_status that refuses a move back and a move out of completed
\* or cancelled
UpdateOrderStatusForwardOnly(r, order_id, status, tenant_id) ==
  LET s == [Idle EXCEPT !.op = "update_order_status", !.tenant_id = tenant_id,
                        !.order_id = order_id, !.status = status]
      pipeline == <<"pending", "confirmed", "preparing", "ready", "completed">>
      place(st) == CHOOSE i \in 1..Len(pipeline) : pipeline[i] = st
      legal(old) == /\ old \notin {"completed", "cancelled"}
                    /\ status = "cancelled" \/ place(status) > place(old)
  IN /\ Free(r)
     /\ started' = started + 1
     /\ IF OrderMissing(order_id, tenant_id)
          THEN /\ orders' = orders
               /\ req' = [req EXCEPT ![r] =
                    [s EXCEPT !.pc = "done",
                              !.response = HTTPException(404, <<"Order", order_id, "not found">>)]]
          ELSE IF ~legal(DictGet(orders[tenant_id], order_id).status)
          THEN /\ orders' = orders
               /\ req' = [req EXCEPT ![r] =
                    [s EXCEPT !.pc = "done",
                              !.response = HTTPException(400, <<"Order", order_id, "cannot become", status>>)]]
          ELSE /\ orders' = [orders EXCEPT ![tenant_id] =
                    DictSet(@, order_id, [DictGet(@, order_id) EXCEPT !.status = status])]
               /\ req' = [req EXCEPT ![r] =
                    [s EXCEPT !.pc = "stamp", !.writes = Wrote(s),
                              !.old_status = DictGet(orders[tenant_id], order_id).status]]
     /\ UNCHANGED <<menu_items, clock, uuid_count, load, validated>>

\* update_order_status that looks the tenant's dict up with setdefault
UpdateOrderStatusSetDefault(r, order_id, status, tenant_id) ==
  LET s == [Idle EXCEPT !.op = "update_order_status", !.tenant_id = tenant_id,
                        !.order_id = order_id, !.status = status]
  IN /\ Free(r)
     /\ started' = started + 1
     /\ IF OrderMissing(order_id, tenant_id)
          THEN /\ orders' = [t \in DOMAIN orders \cup {tenant_id} |->
                               IF t \in DOMAIN orders THEN orders[t] ELSE <<>>]
               /\ req' = [req EXCEPT ![r] =
                    [s EXCEPT !.pc = "done", !.writes = Wrote(s),
                              !.response = HTTPException(404, <<"Order", order_id, "not found">>)]]
          ELSE /\ orders' = [orders EXCEPT ![tenant_id] =
                    DictSet(@, order_id, [DictGet(@, order_id) EXCEPT !.status = status])]
               /\ req' = [req EXCEPT ![r] =
                    [s EXCEPT !.pc = "stamp", !.writes = Wrote(s),
                              !.old_status = DictGet(orders[tenant_id], order_id).status]]
     /\ UNCHANGED <<menu_items, clock, uuid_count, load, validated>>

\* PATCH /orders/{order_id}/status up to `order.status = status`
UpdateOrderStatus(r, order_id, status, tenant_id) ==
  LET s == [Idle EXCEPT !.op = "update_order_status", !.tenant_id = tenant_id,
                        !.order_id = order_id, !.status = status]
  IN /\ Free(r)
     /\ started' = started + 1
     /\ IF OrderMissing(order_id, tenant_id)
          THEN /\ orders' = orders
               /\ req' = [req EXCEPT ![r] =
                    [s EXCEPT !.pc = "done",
                              !.response = HTTPException(404, <<"Order", order_id, "not found">>)]]
          ELSE /\ orders' = [orders EXCEPT ![tenant_id] =
                    DictSet(@, order_id, [DictGet(@, order_id) EXCEPT !.status = status])]
               /\ req' = [req EXCEPT ![r] =
                    [s EXCEPT !.pc = "stamp", !.writes = Wrote(s),
                              !.old_status = DictGet(orders[tenant_id], order_id).status]]
     /\ UNCHANGED <<menu_items, clock, uuid_count, load, validated>>

\* update_order_status that takes an order out of the store once it is
\* completed or cancelled
UpdateOrderStatusStampArchiving(r) ==
  LET s == req[r]
      order == [DictGet(orders[s.tenant_id], s.order_id) EXCEPT !.updated_at = clock]
      kept(o) == o.id # s.order_id
  IN /\ s.pc = "stamp"
     /\ orders' = [orders EXCEPT ![s.tenant_id] =
          IF order.status \in {"completed", "cancelled"}
            THEN SelectSeq(@, kept)
            ELSE DictSet(@, s.order_id, order)]
     /\ req' = [req EXCEPT ![r] =
          [s EXCEPT !.pc = "done", !.writes = Wrote(s),
                    !.response = [status_code |-> 200, body |-> order]]]
     /\ UNCHANGED <<menu_items, clock, uuid_count, load, started, validated>>

\* `order.updated_at = datetime.now()` and the return of the order
UpdateOrderStatusStamp(r) ==
  LET s == req[r]
      order == [DictGet(orders[s.tenant_id], s.order_id) EXCEPT !.updated_at = clock]
  IN /\ s.pc = "stamp"
     /\ orders' = [orders EXCEPT ![s.tenant_id] = DictSet(@, s.order_id, order)]
     /\ req' = [req EXCEPT ![r] =
          [s EXCEPT !.pc = "done", !.writes = Wrote(s),
                    !.response = [status_code |-> 200, body |-> order]]]
     /\ UNCHANGED <<menu_items, clock, uuid_count, load, started, validated>>

\* GET /orders/{order_id}
GetOrder(r, order_id, tenant_id) ==
  /\ Free(r)
  /\ started' = started + 1
  /\ req' = [req EXCEPT ![r] =
       [Idle EXCEPT !.op = "get_order", !.pc = "done", !.tenant_id = tenant_id,
                    !.order_id = order_id, !.response = get_order(order_id, tenant_id)]]
  /\ UNCHANGED <<menu_items, orders, clock, uuid_count, load, validated>>

\* GET /orders
GetOrders(r, tenant_id) ==
  /\ Free(r)
  /\ started' = started + 1
  /\ req' = [req EXCEPT ![r] =
       [Idle EXCEPT !.op = "get_orders", !.pc = "done", !.tenant_id = tenant_id,
                    !.response = get_orders(tenant_id)]]
  /\ UNCHANGED <<menu_items, orders, clock, uuid_count, load, validated>>

\* time passes
Tick ==
  /\ clock < MaxClock
  /\ clock' = clock + 1
  /\ UNCHANGED <<menu_items, orders, uuid_count, req, load, started, validated>>

\* both services started, no request received yet; l is what the clients send
InitLoad(l) ==
  /\ menu_items \in Catalogs
  /\ orders = <<>>
  /\ clock = 0
  /\ uuid_count = 0
  /\ req = [r \in Reqs |-> Idle]
  /\ load = l
  /\ started = 0
  /\ validated = <<>>

Init == \E l \in Loads : InitLoad(l)

\* the slots that can take a new request, and those waiting for the catalog
FreeSlots == {r \in Reqs : Free(r)}
Waiting == {r \in Reqs : req[r].pc = "lookup"}

\* the outcomes of the lookup that slot r waits for
Outcomes(r) ==
  ClientGet(req[r].request.items[Len(req[r].answers) + 1].item_id, req[r].tenant_id)

Next ==
  \/ \E r \in FreeSlots, t \in Tenants, request \in RequestsOf(load) : CreateOrderBegin(r, t, request)
  \/ \E r \in Waiting : \E resp \in Outcomes(r) : CatalogRespond(r, resp)
  \/ \E r \in Reqs : CreateOrderCommit(r)
  \/ \E r \in FreeSlots, o \in OrderIds, st \in OrderStatus, t \in Tenants : UpdateOrderStatus(r, o, st, t)
  \/ \E r \in Reqs : UpdateOrderStatusStamp(r)
  \/ \E r \in FreeSlots, o \in OrderIds, t \in Tenants : GetOrder(r, o, t)
  \/ \E r \in FreeSlots, t \in Tenants : GetOrders(r, t)
  \/ Tick

Spec == Init /\ [][Next]_vars

SpecValidation == InitLoad("validation") /\ [][Next]_vars

SpecLifecycle == InitLoad("lifecycle") /\ [][Next]_vars

SpecConcurrent == InitLoad("concurrent") /\ [][Next]_vars

\* Every outstanding lookup ends, with a response or with an exception: the
\* client is made with timeout=5.0.  A coroutine that can run is run by the
\* event loop.
Fairness ==
  \A r \in Reqs :
    /\ WF_vars(r \in Waiting /\ \E resp \in Outcomes(r) : CatalogRespond(r, resp))
    /\ WF_vars(CreateOrderCommit(r))

SpecValidationFair == SpecValidation /\ Fairness

SpecConcurrentFair == SpecConcurrent /\ Fairness

\* ------------------------------------------------------------ the claims
\* how the outcome of one lookup reads, apart from what the order service does
\* with it
AnswerKind(resp) ==
  IF resp = TimeoutException THEN "timeout"
  ELSE IF IsException(resp) THEN "failure"
  ELSE IF resp.status_code = 404 THEN "not_found"
  ELSE IF resp.status_code # 200 THEN "failure"
  ELSE IF resp.body.available THEN "ok" ELSE "unavailable"

Kinds(s) == {AnswerKind(s.answers[i].resp) : i \in 1..Len(s.answers)}

Creates == {r \in Reqs : req[r].op = "create_order"}

AllOrders == UNION {{orders[t][i] : i \in 1..Len(orders[t])} : t \in DOMAIN orders}

\* the detail of the rejection of the lookup answered last
RejectionOf(s) ==
  LET a == s.answers[Len(s.answers)]
  IN IF AnswerKind(a.resp) = "not_found"
       THEN <<"Item", a.item_id, "not found in menu">>
       ELSE <<"Item", a.item_id, "is not available">>

\* C1: a create_order in which a lookup was answered not-found or
\* found-but-unavailable has ended with the client error 400 that names the
\* item and the reason, and no step of it has written to the order store.
C1_RejectionPersistsNothing ==
  \A r \in Creates :
    Kinds(req[r]) \cap {"not_found", "unavailable"} # {} =>
      /\ req[r].pc = "done"
      /\ req[r].response = HTTPException(400, RejectionOf(req[r]))
      /\ req[r].writes = 0

\* a second line is rejected after the first line validated, with an order
\* already in the store
C1_Witness ==
  \E r \in Creates :
    /\ req[r].pc = "done"
    /\ Len(req[r].answers) = 2
    /\ AnswerKind(req[r].answers[1].resp) = "ok"
    /\ AnswerKind(req[r].answers[2].resp) = "unavailable"
    /\ req[r].response.status_code = 400
    /\ req[r].tenant_id \in DOMAIN orders

\* C2: a create_order in which a lookup timed out or failed at transport level
\* has ended with 503, and no step of it has written to the order store.
C2_CatalogFailurePersistsNothing ==
  \A r \in Creates :
    (\E i \in 1..Len(req[r].answers) : IsException(req[r].answers[i].resp)) =>
      /\ req[r].pc = "done"
      /\ req[r].response.status_code = 503
      /\ req[r].writes = 0

\* the second lookup times out after the first line validated, with an order
\* already in the store
C2_Witness ==
  \E r \in Creates :
    /\ req[r].pc = "done"
    /\ Len(req[r].answers) = 2
    /\ AnswerKind(req[r].answers[1].resp) = "ok"
    /\ req[r].answers[2].resp = TimeoutException
    /\ req[r].response.status_code = 503
    /\ req[r].tenant_id \in DOMAIN orders

\* C3: every order in the store was committed by a create_order whose lookups,
\* one per line and in the order of the lines, were all answered
\* found-and-available by the catalog for the order's tenant and the line's
\* item; a create_order that is still validating has written nothing.
C3_ValidateThenCommit ==
  /\ \A t \in DOMAIN orders : \A i \in 1..Len(orders[t]) :
       LET o == orders[t][i]
       IN /\ o.tenant_id = t
          /\ o.id \in DOMAIN validated
          /\ Len(validated[o.id]) = Len(o.items)
          /\ \A k \in 1..Len(o.items) :
               /\ validated[o.id][k].item_id = o.items[k].item_id
               /\ AnswerKind(validated[o.id][k].resp) = "ok"
               /\ validated[o.id][k].resp.body.id = o.items[k].item_id
               /\ validated[o.id][k].resp.body.tenant_id = t
  /\ \A r \in Creates : req[r].pc \in {"lookup", "validated"} => req[r].writes = 0

\* an order of two lines is in the store
C3_Witness ==
  \E o \in AllOrders : Len(o.items) = 2 /\ Len(validated[o.id]) = 2

\* the first lookup of s that was not answered found-and-available, 0 if none
FirstNotOk(s) ==
  LET bad == {i \in 1..Len(s.answers) : AnswerKind(s.answers[i].resp) # "ok"}
  IN IF bad = {} THEN 0 ELSE CHOOSE i \in bad : \A j \in bad : i <= j

\* C4: whatever the catalog answers, validation ends as Ok, Rejected (400) or
\* Unavailable (503) and as nothing else: Ok iff every line was answered
\* found-and-available, Rejected with the item and the reason when the first
\* other answer was not-found or unavailable, Unavailable when it was a timeout
\* or another failure of the call.
C4_OutcomeClassification ==
  \A r \in Creates :
    LET s == req[r]
        k == FirstNotOk(s)
    IN s.pc # "lookup" =>
         IF k = 0
           THEN s.pc = "validated" \/ s.response.status_code = 201
           ELSE /\ s.pc = "done"
                /\ AnswerKind(s.answers[k].resp) \in {"not_found", "unavailable"} =>
                     s.response = HTTPException(400, RejectionOf(s))
                /\ AnswerKind(s.answers[k].resp) \in {"timeout", "failure"} =>
                     s.response.status_code = 503

\* C5: a create_order with no lines is rejected at once: it makes no lookup,
\* ends with a client error and adds no order to the store.
C5_EmptyOrderRejected ==
  \A r \in Creates :
    req[r].request.items = <<>> =>
      /\ req[r].answers = <<>>
      /\ req[r].writes = 0
      /\ req[r].pc = "done" => req[r].response.status_code \in 400..499

Rank(status) ==
  CASE status = "pending" -> 1
    [] status = "confirmed" -> 2
    [] status = "preparing" -> 3
    [] status = "ready" -> 4
    [] status = "completed" -> 5
    [] status = "cancelled" -> 6

Terminal == {"completed", "cancelled"}

\* C6: the status of an order only moves forward along pending, confirmed,
\* preparing, ready, completed, or to cancelled from a status that is not
\* terminal; completed and cancelled are never left.
C6_StatusLifecycle ==
  [][\A t \in DOMAIN orders : \A i \in 1..Len(orders[t]) :
       LET old == orders[t][i].status
           new == orders'[t][i].status
       IN new # old => old \notin Terminal /\ Rank(new) > Rank(old)]_vars

\* the tenant's dict in the store, empty when the tenant has none
OrdersOf(t) == IF t \in DOMAIN orders THEN orders[t] ELSE <<>>

Range(seq) == {seq[i] : i \in 1..Len(seq)}

\* C7: an order stored under tenant A is not found by get_order under another
\* tenant B and is not in B's list; update_order_status under B with its id
\* ends 404; and no step of a request made under B changes what is stored
\* under A.
C7_OrderIsolation ==
  /\ [](\A a \in DOMAIN orders : \A b \in Tenants \ {a} : \A o \in Range(orders[a]) :
          /\ get_order(o.id, b).status_code = 404
          /\ o \notin Range(get_orders(b).body))
  /\ [][\A r \in Reqs : req'[r] # req[r] =>
          LET b == req'[r].tenant_id
          IN /\ \A a \in DOMAIN orders \ {b} :
                  a \in DOMAIN orders' /\ orders'[a] = orders[a]
             /\ ( /\ req'[r].op = "update_order_status"
                  /\ req'[r].order_id \notin DictKeys(OrdersOf(b)) )
                => /\ req'[r].pc = "done"
                   /\ req'[r].response.status_code = 404
                   /\ orders' = orders]_vars

\* with an order under t1 in the store, an update under t2 that names it has
\* ended 404
C7_Witness ==
  \E r \in Reqs :
    /\ req[r].op = "update_order_status"
    /\ req[r].pc = "done"
    /\ req[r].tenant_id = "t2"
    /\ req[r].order_id \in DictKeys(OrdersOf("t1"))
    /\ req[r].response.status_code = 404
    /\ OrdersOf("t2") # <<>>

MenuIds(t) ==
  IF t \in DOMAIN menu_items THEN {menu_items[t][i].id : i \in 1..Len(menu_items[t])} ELSE {}

\* C8: the catalog answers a lookup for (tenant, item) found only with an item
\* of that tenant's own menu; a create_order whose lookup of an item that is
\* not in its tenant's menu was answered by the catalog has ended 400 "not
\* found" for that item and has written nothing.
C8_ItemIsolation ==
  /\ \A t \in Tenants : \A i \in ItemIds :
       IF i \in MenuIds(t)
         THEN /\ get_menu_item(i, t).status_code = 200
              /\ get_menu_item(i, t).body \in Range(menu_items[t])
              /\ get_menu_item(i, t).body.id = i
         ELSE get_menu_item(i, t).status_code = 404
  /\ \A r \in Creates : \A k \in 1..Len(req[r].answers) :
       LET a == req[r].answers[k]
       IN /\ AnswerKind(a.resp) \in {"ok", "unavailable"} =>
               a.item_id \in MenuIds(req[r].tenant_id)
          /\ ( /\ a.item_id \notin MenuIds(req[r].tenant_id)
               /\ AnswerKind(a.resp) # "timeout"
               /\ AnswerKind(a.resp) # "failure" )
             => /\ req[r].pc = "done"
                /\ req[r].response =
                     HTTPException(400, <<"Item", a.item_id, "not found in menu">>)
                /\ req[r].writes = 0

\* a tenant without a menu asks for an item that another tenant has available
C8_Witness ==
  \E r \in Creates : \E k \in 1..Len(req[r].answers) :
    /\ req[r].tenant_id \notin DOMAIN menu_items
    /\ \E t \in DOMAIN menu_items : \E m \in Range(menu_items[t]) :
         m.id = req[r].answers[k].item_id /\ m.available
    /\ req[r].response.status_code = 400

\* the same, for a tenant whose own menu lacks the item
C8_WitnessOwnMenu ==
  \E r \in Creates : \E k \in 1..Len(req[r].answers) :
    /\ req[r].tenant_id \in DOMAIN menu_items
    /\ req[r].answers[k].item_id \notin MenuIds(req[r].tenant_id)
    /\ \E t \in DOMAIN menu_items : \E m \in Range(menu_items[t]) :
         m.id = req[r].answers[k].item_id /\ m.available
    /\ req[r].response.status_code = 400

RECURSIVE LineSum(_, _)
\* unit_price * quantity of the first n lines, added up
LineSum(items, n) ==
  IF n = 0 THEN 0 ELSE LineSum(items, n - 1) + items[n].quantity * items[n].price

\* C9: the total of every stored order is the sum of unit_price * quantity over
\* its lines at the submitted prices, not at the catalog's; no step changes the
\* lines or the total of a stored order.
C9_Total ==
  /\ [](\A o \in AllOrders :
          /\ o.total = LineSum(o.items, Len(o.items))
          /\ o.items # <<>> =>
               o.total # LineSum([k \in 1..Len(o.items) |->
                            [o.items[k] EXCEPT !.price = CatalogPrice]], Len(o.items)))
  /\ [][\A t \in DOMAIN orders : \A i \in 1..Len(orders[t]) :
          /\ t \in DOMAIN orders'
          /\ Len(orders'[t]) >= i
          /\ orders'[t][i].id = orders[t][i].id
          /\ orders'[t][i].items = orders[t][i].items
          /\ orders'[t][i].total = orders[t][i].total]_vars

\* an order of two lines of different quantities has been moved on
C9_Witness ==
  \E o \in AllOrders :
    /\ Len(o.items) = 2
    /\ o.items[1].quantity # o.items[2].quantity
    /\ o.status = "completed"
    /\ o.updated_at > o.created_at

\* C10: the order a create_order commits is, as first stored and as returned,
\* pending, with created_at = updated_at, under the tenant of the request, and
\* with an id that no order of any tenant had before.
C10_InitialOrder ==
  [][\A r \in Reqs :
       ( /\ req'[r] # req[r]
         /\ req'[r].op = "create_order"
         /\ req'[r].response.status_code = 201 )
       => LET o == req'[r].response.body
              t == req[r].tenant_id
          IN /\ o.status = "pending"
             /\ o.created_at = o.updated_at
             /\ o.tenant_id = t
             /\ \A a \in DOMAIN orders : o.id \notin DictKeys(orders[a])
             /\ t \in DOMAIN orders'
             /\ o \in Range(orders'[t])
             /\ Len(orders'[t]) = Len(OrdersOf(t)) + 1]_vars

\* a second order is committed, under another tenant than the first, after
\* the clock moved
C10_Witness ==
  \E r \in Creates :
    /\ req[r].response.status_code = 201
    /\ req[r].response.body.created_at > 0
    /\ \E a \in DOMAIN orders : a # req[r].tenant_id /\ orders[a] # <<>>

\* the requests of slot r that the step at hand has received or moved on
Stepped(r) == req'[r] # req[r]

\* C11: update_order_status on a (tenant, order id) that is not in the store,
\* the tenant unknown or the id unknown under a known tenant, ends 404 for
\* every new status and leaves the whole store as it was: no order changed, no
\* entry made for the tenant.
C11_UnknownOrderNotFound ==
  [][\A r \in Reqs :
       ( /\ Stepped(r)
         /\ req'[r].op = "update_order_status"
         /\ req[r].pc # "stamp"
         /\ \/ req'[r].tenant_id \notin DOMAIN orders
            \/ req'[r].order_id \notin DictKeys(orders[req'[r].tenant_id]) )
       => /\ req'[r].pc = "done"
          /\ req'[r].response =
               HTTPException(404, <<"Order", req'[r].order_id, "not found">>)
          /\ req'[r].writes = 0
          /\ DOMAIN orders' = DOMAIN orders
          /\ orders' = orders]_vars

\* an update under a tenant that has no entry in the store has ended 404 while
\* another tenant has an order of that id, and the tenant still has no entry
C11_Witness ==
  \E r \in Reqs :
    /\ req[r].op = "update_order_status"
    /\ req[r].pc = "done"
    /\ req[r].response.status_code = 404
    /\ req[r].tenant_id \notin DOMAIN orders
    /\ \E t \in DOMAIN orders : req[r].order_id \in DictKeys(orders[t])

\* the same, for a tenant that has orders but not one of that id
C11_WitnessKnownTenant ==
  \E r \in Reqs :
    /\ req[r].op = "update_order_status"
    /\ req[r].pc = "done"
    /\ req[r].response.status_code = 404
    /\ req[r].tenant_id \in DOMAIN orders
    /\ orders[req[r].tenant_id] # <<>>
    /\ req[r].order_id \notin DictKeys(orders[req[r].tenant_id])

\* C12: get_order and get_orders change nothing in the store, get_orders of a
\* tenant without an entry returns the empty list and makes no entry, and the
\* same read made again in the state the read leaves returns the same result,
\* the list in the same order: the orders of the tenant as they were inserted.
C12_ReadsPure ==
  [][\A r \in Reqs : \A t \in Tenants :
       ( /\ Stepped(r)
         /\ req'[r].op \in {"get_order", "get_orders"}
         /\ req'[r].tenant_id = t )
       => /\ req'[r].pc = "done"
          /\ orders' = orders
          /\ DOMAIN orders' = DOMAIN orders
          /\ \A o \in OrderIds :
               (req'[r].op = "get_order" /\ req'[r].order_id = o) =>
                 /\ req'[r].response = get_order(o, t)
                 /\ get_order(o, t)' = req'[r].response
          /\ req'[r].op = "get_orders" =>
               /\ req'[r].response = get_orders(t)
               /\ get_orders(t)' = req'[r].response
               /\ req'[r].response.body = OrdersOf(t)
               /\ t \notin DOMAIN orders => req'[r].response.body = <<>>]_vars

\* get_orders has returned two orders, the one inserted first first
C12_Witness ==
  \E r \in Reqs :
    /\ req[r].op = "get_orders"
    /\ req[r].pc = "done"
    /\ Len(req[r].response.body) = 2
    /\ req[r].response.body[1].id < req[r].response.body[2].id

\* get_orders of a tenant without an entry, with orders in the store
C12_WitnessUnknownTenant ==
  \E r \in Reqs :
    /\ req[r].op = "get_orders"
    /\ req[r].pc = "done"
    /\ req[r].tenant_id \notin DOMAIN orders
    /\ req[r].response.body = <<>>
    /\ orders # <<>>

Committed(r) == req[r].op = "create_order" /\ req[r].response.status_code = 201

\* C13: create_order requests handled at the same time lose no order: the
\* order of every request that returned 201 is in the store under its tenant,
\* the store holds as many orders as were committed, and a step adds to a
\* tenant's dict exactly one order for each create_order it commits for that
\* tenant, also when the tenant had no dict yet, and takes none away.
C13_ConcurrentCreatesKept ==
  /\ [](/\ \A r \in Reqs : Committed(r) =>
              /\ req[r].tenant_id \in DOMAIN orders
              /\ req[r].order_id \in DictKeys(orders[req[r].tenant_id])
        /\ Cardinality({o.id : o \in AllOrders}) = uuid_count
        /\ \A t \in DOMAIN orders : Cardinality(DictKeys(orders[t])) = Len(orders[t]))
  /\ [][\A t \in Tenants :
          /\ Len(OrdersOf(t))' = Len(OrdersOf(t)) +
               Cardinality({r \in Reqs : /\ Stepped(r)
                                         /\ Committed(r)'
                                         /\ req'[r].tenant_id = t})
          /\ DictKeys(OrdersOf(t)) \subseteq DictKeys(OrdersOf(t))']_vars

\* two create_order requests for the same tenant, handled at the same time,
\* have both returned 201 and the tenant has their two orders
C13_Witness ==
  /\ \A r \in Reqs : Committed(r)
  /\ \E t \in DOMAIN orders :
       /\ \A r \in Reqs : req[r].tenant_id = t
       /\ DictKeys(orders[t]) = {req[r].order_id : r \in Reqs}
       /\ Len(orders[t]) = MaxConcurrent

\* both have validated, neither has committed, and the tenant has no dict yet
C13_WitnessFirstCreates ==
  /\ \A r \in Reqs : req[r].op = "create_order" /\ req[r].pc = "validated"
  /\ \E t \in Tenants : t \notin DOMAIN orders /\ \A r \in Reqs : req[r].tenant_id = t

\* the requests other than r that have written the status of the order that r
\* names and not yet its updated_at
HalfUpdated(r) ==
  {u \in Reqs \ {r} : /\ req[u].pc = "stamp"
                      /\ req[u].tenant_id = req'[r].tenant_id
                      /\ req[u].order_id = req'[r].order_id}

\* C14: status and updated_at of an order, as stored and as a request sees
\* them, are always written by one update_order_status: when an update ends,
\* the order in the store and the order it returns have the status of that
\* update with its updated_at, and get_order never returns an order of which
\* another request has written the status and not yet updated_at.
C14_LinearizableUpdates ==
  /\ [][\A r \in Reqs :
          (req[r].pc = "stamp" /\ req'[r].pc = "done") =>
            /\ DictGet(orders'[req[r].tenant_id], req[r].order_id).status = req[r].status
            /\ req'[r].response.body.status = req[r].status]_vars
  /\ [][\A r \in Reqs :
          ( /\ Stepped(r)
            /\ req'[r].op = "get_order"
            /\ req'[r].response.status_code = 200 )
          => HalfUpdated(r) = {}]_vars

\* C15: the lookups of one create_order are made one at a time and in the
\* order of the lines, at most one for a line; a line is looked up only after
\* every line before it was answered found-and-available; and after an answer
\* that is anything else the request has ended: no later line is looked up and
\* the lookup is not made again.
C15_SequentialShortCircuit ==
  /\ [](\A r \in Creates :
          LET s == req[r]
          IN /\ Len(s.answers) <= Len(s.request.items)
             /\ \A i \in 1..Len(s.answers) :
                  s.answers[i].item_id = s.request.items[i].item_id
             /\ \A i \in 1..(Len(s.answers) - 1) : AnswerKind(s.answers[i].resp) = "ok"
             /\ s.pc = "lookup" =>
                  /\ Len(s.answers) < Len(s.request.items)
                  /\ FirstNotOk(s) = 0
             /\ FirstNotOk(s) # 0 => s.pc = "done" /\ FirstNotOk(s) = Len(s.answers))
  /\ [][\A r \in Reqs :
          req'[r].answers # req[r].answers =>
            \/ req[r].pc \in {"idle", "done"} /\ req'[r].answers = <<>>
            \/ /\ req[r].pc = "lookup"
               /\ FirstNotOk(req[r]) = 0
               /\ Len(req'[r].answers) = Len(req[r].answers) + 1
               /\ SubSeq(req'[r].answers, 1, Len(req[r].answers)) = req[r].answers]_vars

\* the lookup of the first of two lines timed out and the request has ended
\* without a lookup of the second
C15_Witness ==
  \E r \in Creates :
    /\ Len(req[r].request.items) = 2
    /\ req[r].pc = "done"
    /\ Len(req[r].answers) = 1
    /\ req[r].answers[1].resp = TimeoutException

C16_WitnessSameStatus ==
  \E r \in Reqs :
    /\ req[r].op = "update_order_status"
    /\ req[r].pc = "done"
    /\ req[r].old_status = req[r].status
    /\ req[r].response.status_code = 200

\* C17: an update_order_status that succeeds leaves updated_at of the order
\* greater than it was before, and updated_at of a stored order is never less
\* than its created_at.
C17_TimestampProgress ==
  /\ [](\A o \in AllOrders : o.updated_at >= o.created_at)
  /\ [][\A r \in Reqs :
          (req[r].pc = "stamp" /\ req'[r].pc = "done") =>
            DictGet(orders'[req[r].tenant_id], req[r].order_id).updated_at >
              DictGet(orders[req[r].tenant_id], req[r].order_id).updated_at]_vars

C19_OrdersNeverRemoved ==
  /\ [](\A t \in DOMAIN orders : \A o \in Range(orders[t]) :
          /\ get_order(o.id, t) = [status_code |-> 200, body |-> o]
          /\ get_orders(t).status_code = 200
          /\ Cardinality({i \in 1..Len(get_orders(t).body) :
                            get_orders(t).body[i].id = o.id}) = 1
          /\ o \in Range(get_orders(t).body))
  /\ [][\A t \in DOMAIN orders :
          /\ t \in DOMAIN orders'
          /\ DictKeys(orders[t]) \subseteq DictKeys(orders'[t])]_vars

\* get_order returns an order after it was cancelled and the clock moved
C19_Witness ==
  \E r \in Reqs :
    /\ req[r].op = "get_order"
    /\ req[r].pc = "done"
    /\ req[r].response.status_code = 200
    /\ req[r].response.body.status = "cancelled"
    /\ req[r].response.body.updated_at > req[r].response.body.created_at
    /\ req[r].response.body \in Range(orders[req[r].tenant_id])

\* C20: update_order_status makes no catalog lookup and leaves the catalog
\* alone, and what it does is settled by the order store: it goes on to write
\* exactly when the order is in the store under the tenant, ends 404 exactly
\* when it is not, and once it has written the status it ends 200, whatever
\* the catalog answers to the requests handled at the same time.
C20_UpdateBypassesValidation ==
  [][\A r \in Reqs : \A t \in Tenants : \A o \in OrderIds :
       ( /\ Stepped(r)
         /\ req'[r].op = "update_order_status"
         /\ req'[r].tenant_id = t
         /\ req'[r].order_id = o )
       => /\ req'[r].answers = <<>>
          /\ menu_items' = menu_items
          /\ IF req[r].pc = "stamp"
               THEN req'[r].pc = "done" /\ req'[r].response.status_code = 200
               ELSE IF o \in DictKeys(OrdersOf(t))
                 THEN req'[r].pc = "stamp"
                 ELSE req'[r].pc = "done" /\ req'[r].response.status_code = 404]_vars

\* an update has ended 200 beside a create_order that found the catalog
\* unreachable
C20_Witness ==
  \E r \in Reqs : \E c \in Creates :
    /\ req[r].op = "update_order_status"
    /\ req[r].pc = "done"
    /\ req[r].response.status_code = 200
    /\ req[c].pc = "done"
    /\ req[c].answers # <<>>
    /\ req[c].answers[1].resp = ConnectError
    /\ req[c].response.status_code = 503

\* a create_order in flight leads to one that has ended
CreateEnds == \A r \in Reqs : (r \in InFlight) ~> (req[r].pc = "done")

\* a create_order that has ended has one of the three responses, 201 exactly
\* when it wrote its order, in one write
CreateOutcome ==
  \A r \in Creates :
    /\ req[r].writes <= 1
    /\ req[r].pc = "done" =>
         /\ req[r].response.status_code \in {201, 400, 503}
         /\ req[r].response.status_code = 201 <=> req[r].writes = 1

\* a slot whose create_order has ended changes only by taking a new request
CreateEndsOnce ==
  [][\A r \in Creates :
       (req[r].pc = "done" /\ Stepped(r)) => started' = started + 1]_vars

\* C21: with every lookup answered or timed out in the end and every request
\* that can run run in the end, every create_order ends, and ends once, as
\* exactly one of Order (201), ValidationFailed (400) and CatalogUnavailable
\* (503).
C21_CreateTerminates == CreateEnds /\ []CreateOutcome /\ CreateEndsOnce

\* the outcomes with the 500 of an uncaught httpx.HTTPStatusError among them
CreateOutcomeOr500 ==
  \A r \in Creates :
    /\ req[r].writes <= 1
    /\ req[r].pc = "done" =>
         /\ req[r].response.status_code \in {201, 400, 503, 500}
         /\ req[r].response.status_code = 201 <=> req[r].writes = 1
====
